---------------------------- MODULE Spec2Model ----------------------------
(***************************************************************************)
(* A model of the Go package ringbuffer (ericaro/ringbuffer): the Ring     *)
(* struct (buf, head, size, guarded by a sync.RWMutex), its operations     *)
(* New, Add, AddAll, Remove, SetCapacity, Push, Get, and the two index     *)
(* helpers Next and Index.                                                 *)
(*                                                                         *)
(* Go slices are modelled as TLA+ sequences: slot k of a Go slice s is     *)
(* s[k+1] here.  Every index the model stores (head, the results of Index  *)
(* and of the Go function Next) is the 0-based Go index.                   *)
(***************************************************************************)
EXTENDS Integers, Sequences, FiniteSets, TLC

\* ------------------------------------------------------------------ bounds

\* Largest capacity given to New and largest capacity asked of SetCapacity.
MaxCap == 3

\* Stored values are 1..MaxVal.
MaxVal == 2

\* Longest value list handed to AddAll.
MaxAddAll == 2

\* Get is called with every offset in -MaxOffset..MaxOffset.
MaxOffset == 4

\* The zero value of interface{}: what make() fills a fresh slice with.
Nil == 0

Val == 1..MaxVal

\* Capacities asked of SetCapacity: negative, zero, up to the largest.
Capacities == (-1)..MaxCap

\* Counts given to Remove: negative, zero, up to one more than any size.
Counts == (-1)..(MaxCap + 1)

Offsets == (-MaxOffset)..MaxOffset

RECURSIVE SeqsUpTo(_, _)
\* Every sequence over S of length at most n.
SeqsUpTo(S, n) ==
    IF n = 0 THEN {<<>>}
    ELSE LET shorter == SeqsUpTo(S, n - 1)
         IN  shorter \cup {Append(s, x) : s \in {t \in shorter : Len(t) = n - 1}, x \in S}

ValueLists == SeqsUpTo(Val, MaxAddAll)

Min(a, b) == IF a < b THEN a ELSE b

Max(a, b) == IF a > b THEN a ELSE b

\* ------------------------------------------------------- Go's primitives

\* Go's a % b for b # 0: the remainder of the truncated division, which has
\* the sign of a.
GoRem(a, b) ==
    LET m == IF b < 0 THEN -b ELSE b
    IN  IF a >= 0 THEN a % m ELSE -((-a) % m)

\* make([]interface{}, n)
Make(n) == [k \in 1..n |-> Nil]

\* s[lo:hi] is in bounds (len(s) = cap(s) for every slice of the package).
SliceOk(s, lo, hi) == 0 <= lo /\ lo <= hi /\ hi <= Len(s)

\* s[lo:hi]
Slice(s, lo, hi) == SubSeq(s, lo + 1, hi)

\* copy(dst, src): the number of elements copied.
CopyN(dst, src) == Min(Len(dst), Len(src))

\* copy(dst, src): dst afterwards.
Copy(dst, src) ==
    [k \in 1..Len(dst) |-> IF k <= CopyN(dst, src) THEN src[k] ELSE dst[k]]

\* ------------------------------------------------------------ index helpers

\* The Go function Next(i, latest, capacity); capacity # 0 (the caller
\* faults on the division otherwise, see NextFaults).
RingNext(i, latest, capacity) ==
    LET n == GoRem(latest + i, capacity)
    IN  IF n < 0 THEN n + capacity ELSE n

\* (latest + i) % capacity is an integer division by zero.
NextFaults(capacity) == capacity = 0

RECURSIVE FoldUp(_, _)
\* for pos < 0 { pos += capacity }
FoldUp(pos, capacity) ==
    IF pos < 0 THEN FoldUp(pos + capacity, capacity) ELSE pos

\* Index with the offset folded modulo the capacity instead of the size.
IndexFoldsByCapacity(i, h, s, capacity) ==
    IF s = 0 THEN -1
    ELSE LET r == GoRem(i, capacity)
             j == IF r < 0 THEN r + capacity ELSE r
         IN  FoldUp(h - j, capacity)

\* Index without if i < 0 { i += size }.
IndexKeepsNegative(i, h, s, capacity) ==
    IF s = 0 THEN -1
    ELSE FoldUp(h - GoRem(i, s), capacity)

\* The Go function Index(i, head, size, capacity).
Index(i, h, s, capacity) ==
    IF s = 0 THEN -1
    ELSE LET r == GoRem(i, s)
             j == IF r < 0 THEN r + s ELSE r
         IN  FoldUp(h - j, capacity)


\* ------------------------------------------------------------------ state

VARIABLES
    buf,     \* Ring.buf: the storage slice; len(buf) is the capacity
    head,    \* Ring.head: index of the newest element, -1 when empty
    size,    \* Ring.size
    last,    \* the last completed call: its name, arguments and results
    fill,    \* how many Add calls were made since New, with nothing but Get
             \* calls among them; -1 once any other call was made
    pc,      \* per goroutine: where it stands in the call it is making
    loc,     \* per goroutine: the call's arguments, locals and results
    wlock,   \* Ring.lock: the goroutine holding it for writing, 0 when free
    alist,   \* the list the ring stands for, oldest first: what the calls made
             \* so far, one after the other, leave of an unbounded list
    probe    \* arguments handed to Index alone, and what it returned

vars == <<buf, head, size, last, fill, alist, probe, pc, loc, wlock, alist, probe>>

\* The goroutines sharing one Ring.
Threads == {1, 2}

\* A goroutine's locals outside any call.
NoLocals ==
    [op |-> "none", val |-> 0, values |-> <<>>, all |-> <<>>, seen |-> 0, err |-> "nil", out |-> 0]

\* The three fields of the Ring struct as one value.
Ring == [buf |-> buf, head |-> head, size |-> size]

\* What a call returns: the ring it leaves, its error ("nil", "Full",
\* "Empty", or "panic" for a runtime fault or an explicit panic) and, for
\* Get, the value.
Result(r, err) == [ring |-> r, err |-> err, val |-> 0]

\* New(capacity)
New(capacity) == [buf |-> Make(capacity), head |-> -1, size |-> 0]

\* ------------------------------------------------------------- operations

\* Add's test with > for >=.
AddFullOffByOne(r) == r.size > Len(r.buf)

\* Add's test before it takes the lock: if b.size >= len(b.buf).
AddFull(r) == r.size >= Len(r.buf)

\* Add's critical section without b.size++.
AddLockedNoCount(r, val) ==
    IF NextFaults(Len(r.buf)) THEN Result(r, "panic")
    ELSE LET next == RingNext(1, r.head, Len(r.buf))
         IN  Result([buf  |-> [r.buf EXCEPT ![next + 1] = val],
                     head |-> next,
                     size |-> r.size], "nil")

\* Add's critical section.
AddLocked(r, val) ==
    IF NextFaults(Len(r.buf)) THEN Result(r, "panic")
    ELSE LET next == RingNext(1, r.head, Len(r.buf))
         IN  Result([buf  |-> [r.buf EXCEPT ![next + 1] = val],
                     head |-> next,
                     size |-> r.size + 1], "nil")

\* b.Add(val), run with no other call in between.
Add(r, val) == IF AddFull(r) THEN Result(r, "Full") ELSE AddLocked(r, val)

\* AddAll's test with >= for >.
AddAllFullAtCapacity(r, values) == r.size + Len(values) >= Len(r.buf)

\* AddAll's test without the size: if len(values) > len(b.buf).
AddAllFullIgnoresSize(r, values) == Len(values) > Len(r.buf)

\* AddAll's test: if b.size+len(values) > len(b.buf).
AddAllFull(r, values) == r.size + Len(values) > Len(r.buf)

\* One turn of AddAll's loop with the target slice begun one slot late:
\* tgt := b.buf[next+1:]
AddAllTurnTargetLate(r, values) ==
    IF NextFaults(Len(r.buf))
    THEN [ring |-> r, values |-> values, n |-> 0, fault |-> TRUE]
    ELSE LET next == RingNext(1, r.head, Len(r.buf))
             tgt  == Slice(r.buf, next + 1, Len(r.buf))
             n    == CopyN(tgt, values)
         IN  IF n = 0
             THEN [ring |-> r, values |-> values, n |-> 0, fault |-> TRUE]
             ELSE [ring   |-> [buf  |-> SubSeq(r.buf, 1, next + 1) \o Copy(tgt, values),
                               head |-> RingNext(n, r.head, Len(r.buf)),
                               size |-> r.size + n],
                   values |-> SubSeq(values, n + 1, Len(values)),
                   n      |-> n,
                   fault  |-> FALSE]

\* One turn of AddAll's loop with the head moved by one slot, not by n.
AddAllTurnHeadByOne(r, values) ==
    IF NextFaults(Len(r.buf))
    THEN [ring |-> r, values |-> values, n |-> 0, fault |-> TRUE]
    ELSE LET next == RingNext(1, r.head, Len(r.buf))
             tgt  == Slice(r.buf, next, Len(r.buf))
             n    == CopyN(tgt, values)
         IN  IF n = 0
             THEN [ring |-> r, values |-> values, n |-> 0, fault |-> TRUE]
             ELSE [ring   |-> [buf  |-> SubSeq(r.buf, 1, next) \o Copy(tgt, values),
                               head |-> RingNext(1, r.head, Len(r.buf)),
                               size |-> r.size + n],
                   values |-> SubSeq(values, n + 1, Len(values)),
                   n      |-> n,
                   fault  |-> FALSE]

\* A turn of AddAll's loop that copies one value only.
AddAllTurnOneValue(r, values) ==
    IF NextFaults(Len(r.buf)) \/ Len(values) = 0
    THEN [ring |-> r, values |-> values, n |-> 0, fault |-> TRUE]
    ELSE LET next == RingNext(1, r.head, Len(r.buf))
         IN  [ring   |-> [buf  |-> [r.buf EXCEPT ![next + 1] = values[1]],
                          head |-> RingNext(1, r.head, Len(r.buf)),
                          size |-> r.size + 1],
              values |-> Tail(values),
              n      |-> 1,
              fault  |-> FALSE]

\* One turn of AddAll's loop, values not empty: the ring and the values left
\* afterwards, n the number copied, fault when the turn panics.
AddAllTurn(r, values) ==
    IF NextFaults(Len(r.buf))
    THEN [ring |-> r, values |-> values, n |-> 0, fault |-> TRUE]
    ELSE LET next == RingNext(1, r.head, Len(r.buf))
             tgt  == Slice(r.buf, next, Len(r.buf))
             n    == CopyN(tgt, values)
         IN  IF n = 0
             THEN [ring |-> r, values |-> values, n |-> 0, fault |-> TRUE]
             ELSE [ring   |-> [buf  |-> SubSeq(r.buf, 1, next) \o Copy(tgt, values),
                               head |-> RingNext(n, r.head, Len(r.buf)),
                               size |-> r.size + n],
                   values |-> SubSeq(values, n + 1, Len(values)),
                   n      |-> n,
                   fault  |-> FALSE]

RECURSIVE AddAllLoop(_, _)
\* for len(values) > 0 { ... }
AddAllLoop(r, values) ==
    IF Len(values) = 0 THEN Result(r, "nil")
    ELSE LET t == AddAllTurn(r, values)
         IN  IF t.fault THEN Result(t.ring, "panic")
             ELSE AddAllLoop(t.ring, t.values)

\* b.AddAll(values...)
AddAll(r, values) ==
    IF AddAllFull(r, values) THEN Result(r, "Full") ELSE AddAllLoop(r, values)

\* Remove's first write as b.size--.
RemoveShrinkByOne(r, count) == [r EXCEPT !.size = r.size - 1]

\* Remove's first write: b.size -= count
RemoveShrink(r, count) == [r EXCEPT !.size = r.size - count]

\* Remove's reset without b.head = -1.
RemoveResetKeepsHead(r) ==
    IF r.size <= 0 THEN [r EXCEPT !.size = 0] ELSE r

\* Remove's reset with the test if b.size < 0.
RemoveResetBelowZero(r) ==
    IF r.size < 0 THEN [r EXCEPT !.size = 0, !.head = -1] ELSE r

\* Remove's reset: if b.size <= 0 { b.size = 0; b.head = -1 }
RemoveReset(r) ==
    IF r.size <= 0 THEN [r EXCEPT !.size = 0, !.head = -1] ELSE r

\* b.Remove(count)
Remove(r, count) ==
    IF count <= 0 THEN Result(r, "nil")
    ELSE Result(RemoveReset(RemoveShrink(r, count)), "nil")

\* SetCapacity's copy with the second span of a wrapped window left out.
RelocateFirstSpanOnly(r, nbuf) ==
    LET len  == Len(r.buf)
        tail == Index(-1, r.head, r.size, len)
    IN  IF tail < r.head
        THEN IF ~SliceOk(r.buf, tail, r.head + 1)
             THEN [buf |-> nbuf, fault |-> TRUE]
             ELSE [buf |-> Copy(nbuf, Slice(r.buf, tail, r.head + 1)), fault |-> FALSE]
        ELSE IF ~SliceOk(r.buf, tail, len)
             THEN [buf |-> nbuf, fault |-> TRUE]
             ELSE [buf |-> Copy(nbuf, Slice(r.buf, tail, len)), fault |-> FALSE]

\* SetCapacity's copy of the live window into nbuf, fault when a slice
\* expression is out of range.
Relocate(r, nbuf) ==
    LET len  == Len(r.buf)
        tail == Index(-1, r.head, r.size, len)
    IN  IF tail < r.head
        THEN IF ~SliceOk(r.buf, tail, r.head + 1)
             THEN [buf |-> nbuf, fault |-> TRUE]
             ELSE [buf |-> Copy(nbuf, Slice(r.buf, tail, r.head + 1)), fault |-> FALSE]
        ELSE IF ~SliceOk(r.buf, tail, len)
             THEN [buf |-> nbuf, fault |-> TRUE]
             ELSE LET n  == CopyN(nbuf, Slice(r.buf, tail, len))
                      b1 == Copy(nbuf, Slice(r.buf, tail, len))
                  IN  IF ~SliceOk(b1, n, Len(b1)) \/ ~SliceOk(r.buf, 0, r.head + 1)
                      THEN [buf |-> b1, fault |-> TRUE]
                      ELSE [buf   |-> SubSeq(b1, 1, n)
                                      \o Copy(Slice(b1, n, Len(b1)), Slice(r.buf, 0, r.head + 1)),
                            fault |-> FALSE]

\* The capacity SetCapacity settles on: if capacity < b.size { capacity = b.size }
ClampCapacity(r, capacity) == IF capacity < r.size THEN r.size ELSE capacity

\* SetCapacity without the test if capacity == len(b.buf) { return }.
SetCapacityAlwaysCopies(r, capacity) ==
    LET c == ClampCapacity(r, capacity)
        m == Relocate(r, Make(c))
    IN  IF m.fault THEN Result(r, "panic")
        ELSE Result([buf |-> m.buf, head |-> r.size - 1, size |-> r.size], "nil")

\* b.SetCapacity(capacity)
SetCapacity(r, capacity) ==
    LET c == ClampCapacity(r, capacity)
    IN  IF c = Len(r.buf) THEN Result(r, "nil")
        ELSE LET m == Relocate(r, Make(c))
             IN  IF m.fault THEN Result(r, "panic")
                 ELSE Result([buf |-> m.buf, head |-> r.size - 1, size |-> r.size], "nil")

\* Push without the test of b.size == 0.
PushIntoEmpty(r, value) ==
    IF Len(r.buf) = 0 THEN Result(r, "nil")
    ELSE LET next == RingNext(1, r.head, Len(r.buf))
         IN  Result([r EXCEPT !.buf[next + 1] = value, !.head = next], "nil")

\* Push that counts the value while there is room, as Add does.
PushCounts(r, value) ==
    IF Len(r.buf) = 0 \/ r.size = 0 THEN Result(r, "nil")
    ELSE LET next == RingNext(1, r.head, Len(r.buf))
         IN  Result([r EXCEPT !.buf[next + 1] = value, !.head = next,
                              !.size = Min(r.size + 1, Len(r.buf))], "nil")

\* Push without b.head = next.
PushKeepsHead(r, value) ==
    IF Len(r.buf) = 0 \/ r.size = 0 THEN Result(r, "nil")
    ELSE LET next == RingNext(1, r.head, Len(r.buf))
         IN  Result([r EXCEPT !.buf[next + 1] = value], "nil")

\* b.Push(value)
Push(r, value) ==
    IF Len(r.buf) = 0 \/ r.size = 0 THEN Result(r, "nil")
    ELSE LET next == RingNext(1, r.head, Len(r.buf))
         IN  Result([r EXCEPT !.buf[next + 1] = value, !.head = next], "nil")

\* Get that returns 0 and no error on an empty ring.
GetNoEmptyError(r, i) ==
    IF r.size = 0 THEN Result(r, "nil")
    ELSE [ring |-> r, err |-> "nil",
          val  |-> r.buf[Index(i, r.head, r.size, Len(r.buf)) + 1]]

\* b.Get(i)
Get(r, i) ==
    IF r.size = 0 THEN Result(r, "Empty")
    ELSE [ring |-> r, err |-> "nil",
          val  |-> r.buf[Index(i, r.head, r.size, Len(r.buf)) + 1]]

\* b.Capacity()
Capacity(r) == Len(r.buf)

\* b.Size()
Size(r) == r.size

\* ---------------------------------------------------- sequential behaviour

\* Largest capacity and largest offset, either sign, handed to Index alone.
MaxIndexCap == 5

MaxIndexOffset == 51

\* No call of Index alone.
NoProbe == [i |-> 0, head |-> -1, size |-> 0, capacity |-> 0, done |-> FALSE, pos |-> 0]

\* The list after Remove(count): its min(max(count, 0), length) oldest dropped.
AbstractRemove(l, count) == SubSeq(l, Min(Max(count, 0), Len(l)) + 1, Len(l))

\* The list after the call op(arg, args) that returned err: a successful Add
\* or AddAll appends at the newest end, Remove drops the oldest, Push on a
\* list that is not empty appends and drops the oldest, and nothing else
\* changes it.
Abstract(op, arg, args, err, l) ==
    CASE op = "Add" /\ err = "nil"    -> Append(l, arg)
      [] op = "AddAll" /\ err = "nil" -> l \o args
      [] op = "Remove"                -> AbstractRemove(l, arg)
      [] op = "Push" /\ Len(l) > 0    -> Tail(Append(l, arg))
      [] OTHER                        -> l

\* A runtime fault ends the program.
Faulted == last.err = "panic"

Called(op, arg, args, res) ==
    [op |-> op, arg |-> arg, args |-> args, err |-> res.err, val |-> res.val]

\* The ring becomes res.ring and the call is recorded.
Return(op, arg, args, res) ==
    /\ buf' = res.ring.buf
    /\ head' = res.ring.head
    /\ size' = res.ring.size
    /\ last' = Called(op, arg, args, res)
    /\ fill' = IF op = "Get" THEN fill
               ELSE IF op = "Add" /\ fill >= 0 /\ fill < MaxCap THEN fill + 1
               ELSE -1
    /\ alist' = Abstract(op, arg, args, res.err, alist)
    /\ UNCHANGED <<pc, loc, wlock, probe>>

Init ==
    /\ \E capacity \in 0..MaxCap :
          /\ buf = New(capacity).buf
          /\ head = New(capacity).head
          /\ size = New(capacity).size
    /\ last = [op |-> "New", arg |-> 0, args |-> <<>>, err |-> "nil", val |-> 0]
    /\ fill = 0
    /\ pc = [t \in Threads |-> "idle"]
    /\ loc = [t \in Threads |-> NoLocals]
    /\ wlock = 0
    /\ alist = <<>>
    /\ probe = NoProbe

DoAdd == \E v \in Val : ~Faulted /\ Return("Add", v, <<>>, Add(Ring, v))

DoAddAll == \E vs \in ValueLists : ~Faulted /\ Return("AddAll", 0, vs, AddAll(Ring, vs))

DoRemove == \E n \in Counts : ~Faulted /\ Return("Remove", n, <<>>, Remove(Ring, n))

DoSetCapacity ==
    \E c \in Capacities : ~Faulted /\ Return("SetCapacity", c, <<>>, SetCapacity(Ring, c))

DoPush == \E v \in Val : ~Faulted /\ Return("Push", v, <<>>, Push(Ring, v))

\* (The offset is not kept in last: what Get returns is.)
DoGet == \E i \in Offsets : ~Faulted /\ Return("Get", 0, <<>>, Get(Ring, i))

Next == DoAdd \/ DoAddAll \/ DoRemove \/ DoSetCapacity \/ DoPush \/ DoGet

Spec == Init /\ [][Next]_vars

\* ------------------------------------------------------------ Index alone

\* The arguments Index is called with: any capacity, a size within it, a head
\* within it or -1, and offsets of either sign many times the size.
IndexInit ==
    /\ buf = New(0).buf /\ head = New(0).head /\ size = New(0).size
    /\ last = [op |-> "New", arg |-> 0, args |-> <<>>, err |-> "nil", val |-> 0]
    /\ fill = 0
    /\ pc = [t \in Threads |-> "idle"]
    /\ loc = [t \in Threads |-> NoLocals]
    /\ wlock = 0
    /\ alist = <<>>
    /\ \E capacity \in 0..MaxIndexCap, s \in 0..MaxIndexCap, h \in (-1)..(MaxIndexCap - 1),
          i \in (-MaxIndexOffset)..MaxIndexOffset :
          /\ s <= capacity /\ h < capacity
          /\ probe = [NoProbe EXCEPT !.i = i, !.head = h, !.size = s, !.capacity = capacity]

\* Index(i, head, size, capacity) is called and returns.
CallIndex ==
    /\ ~probe.done
    /\ probe' = [probe EXCEPT !.done = TRUE,
                              !.pos = Index(probe.i, probe.head, probe.size, probe.capacity)]
    /\ UNCHANGED <<buf, head, size, last, fill, pc, loc, wlock, alist>>

IndexSpec == IndexInit /\ [][CallIndex]_vars

\* ---------------------------------------------------- concurrent behaviour
\*
\* Every call but Add takes the lock first and releases it (deferred) on
\* return; Add reads b.size and len(b.buf) before it takes the lock.  A call
\* is cut into steps at the points where that unlocked read can tell the
\* difference: between Add's two reads and its critical section, between the
\* turns of AddAll's loop, and between Remove's two writes of b.size.

\* A panic in any goroutine ends the program.
Crashed == \E t \in Threads : pc[t] = "panic"

\* The ring becomes r.
Store(r) == buf' = r.buf /\ head' = r.head /\ size' = r.size

\* Goroutine t returns from call op with the error and value of res.
Finish(t, op, res) ==
    /\ pc' = [pc EXCEPT ![t] = IF res.err = "panic" THEN "panic" ELSE "idle"]
    /\ loc' = [loc EXCEPT ![t] = [NoLocals EXCEPT !.op = op, !.err = res.err, !.out = res.val]]

\* Add, first read: b.size
AddReadSize(t) ==
    \E v \in Val :
       /\ ~Crashed /\ pc[t] = "idle"
       /\ pc' = [pc EXCEPT ![t] = "AddLen"]
       /\ loc' = [loc EXCEPT ![t] = [NoLocals EXCEPT !.op = "Add", !.val = v, !.seen = size]]
       /\ UNCHANGED <<buf, head, size, last, fill, alist, probe, wlock>>

\* Add, second read and the test: if b.size >= len(b.buf) { return FullError }
AddReadLen(t) ==
    /\ ~Crashed /\ pc[t] = "AddLen"
    /\ IF AddFull([Ring EXCEPT !.size = loc[t].seen])
       THEN Finish(t, "Add", Result(Ring, "Full"))
       ELSE pc' = [pc EXCEPT ![t] = "AddLock"] /\ loc' = loc
    /\ UNCHANGED <<buf, head, size, last, fill, alist, probe, wlock>>

\* Add: b.lock.Lock() and the critical section.
AddCritical(t) ==
    /\ ~Crashed /\ pc[t] = "AddLock" /\ wlock = 0
    /\ LET res == AddLocked(Ring, loc[t].val)
       IN  Store(res.ring) /\ Finish(t, "Add", res)
    /\ UNCHANGED <<last, fill, alist, probe, wlock>>

\* AddAll: b.lock.Lock(), the test, and entry to the loop.  The goroutine keeps
\* the list it was called with (all), and the size and the newest element the
\* ring had when it took the lock (seen, val).
AddAllBegin(t) ==
    \E vs \in ValueLists :
       /\ ~Crashed /\ pc[t] = "idle" /\ wlock = 0
       /\ IF AddAllFull(Ring, vs)
          THEN Finish(t, "AddAll", Result(Ring, "Full")) /\ wlock' = wlock
          ELSE IF Len(vs) = 0
          THEN Finish(t, "AddAll", Result(Ring, "nil")) /\ wlock' = wlock
          ELSE /\ pc' = [pc EXCEPT ![t] = "AddAllLoop"]
               /\ loc' = [loc EXCEPT ![t] = [NoLocals EXCEPT !.op = "AddAll", !.values = vs,
                                                              !.all = vs, !.seen = size,
                                                              !.val = Get(Ring, 0).val]]
               /\ wlock' = t
       /\ UNCHANGED <<buf, head, size, last, fill, alist, probe>>

\* AddAll: one turn of the loop; the return, when no value is left.
AddAllStep(t) ==
    /\ ~Crashed /\ pc[t] = "AddAllLoop" /\ wlock = t
    /\ LET turn == AddAllTurn(Ring, loc[t].values)
       IN  /\ Store(turn.ring)
           /\ IF turn.fault
              THEN Finish(t, "AddAll", Result(turn.ring, "panic")) /\ wlock' = 0
              ELSE IF Len(turn.values) = 0
              THEN Finish(t, "AddAll", Result(turn.ring, "nil")) /\ wlock' = 0
              ELSE /\ loc' = [loc EXCEPT ![t].values = turn.values]
                   /\ UNCHANGED <<pc, wlock>>
    /\ UNCHANGED <<last, fill, alist, probe>>

\* Remove: b.lock.Lock(), the test of count, b.size -= count.
RemoveBegin(t) ==
    \E count \in Counts :
       /\ ~Crashed /\ pc[t] = "idle" /\ wlock = 0
       /\ IF count <= 0
          THEN Finish(t, "Remove", Result(Ring, "nil")) /\ UNCHANGED <<size, wlock>>
          ELSE /\ size' = RemoveShrink(Ring, count).size
               /\ pc' = [pc EXCEPT ![t] = "RemoveReset"]
               /\ loc' = [loc EXCEPT ![t] = [NoLocals EXCEPT !.op = "Remove"]]
               /\ wlock' = t
       /\ UNCHANGED <<buf, head, last, fill, alist, probe>>

\* Remove: the reset of an emptied ring, and the return.
RemoveEnd(t) ==
    /\ ~Crashed /\ pc[t] = "RemoveReset" /\ wlock = t
    /\ Store(RemoveReset(Ring))
    /\ Finish(t, "Remove", Result(Ring, "nil"))
    /\ wlock' = 0
    /\ UNCHANGED <<last, fill, alist, probe>>

\* SetCapacity, in one step: it writes b.buf and b.head once each, at its end.
\* (A ring whose size has outgrown MaxCap is not resized: the capacity of the
\* model stays within MaxCap.)
SetCapacityCall(t) ==
    \E c \in Capacities :
       /\ ~Crashed /\ pc[t] = "idle" /\ wlock = 0
       /\ size <= MaxCap
       /\ LET res == SetCapacity(Ring, c)
          IN  Store(res.ring) /\ Finish(t, "SetCapacity", res)
       /\ UNCHANGED <<last, fill, alist, probe, wlock>>

\* Push, in one step: it does not write b.size.
PushCall(t) ==
    \E v \in Val :
       /\ ~Crashed /\ pc[t] = "idle" /\ wlock = 0
       /\ LET res == Push(Ring, v)
          IN  Store(res.ring) /\ Finish(t, "Push", res)
       /\ UNCHANGED <<last, fill, alist, probe, wlock>>

\* Get, Size or Capacity is called and comes to its b.lock.RLock(), where it
\* waits for as long as another goroutine holds the lock for writing.
RLock(t) ==
    /\ ~Crashed /\ pc[t] = "idle"
    /\ pc' = [pc EXCEPT ![t] = "RLock"]
    /\ loc' = [loc EXCEPT ![t] = NoLocals]
    /\ UNCHANGED <<buf, head, size, last, fill, alist, probe, wlock>>

\* Get, Size and Capacity, each in one step once it has the lock for reading.
GetCall(t) ==
    \E i \in Offsets :
       /\ ~Crashed /\ pc[t] = "RLock" /\ wlock = 0
       /\ pc' = [pc EXCEPT ![t] = "idle"]
       /\ loc' = [loc EXCEPT ![t] = [NoLocals EXCEPT !.op = "Get", !.val = i,
                                                      !.err = Get(Ring, i).err,
                                                      !.out = Get(Ring, i).val]]
       /\ UNCHANGED <<buf, head, size, last, fill, alist, probe, wlock>>

\* Size without b.lock.RLock().
SizeCallNoLock(t) ==
    /\ ~Crashed /\ pc[t] = "RLock"
    /\ Finish(t, "Size", [ring |-> Ring, err |-> "nil", val |-> Size(Ring)])
    /\ UNCHANGED <<buf, head, size, last, fill, alist, probe, wlock>>

SizeCall(t) ==
    /\ ~Crashed /\ pc[t] = "RLock" /\ wlock = 0
    /\ Finish(t, "Size", [ring |-> Ring, err |-> "nil", val |-> Size(Ring)])
    /\ UNCHANGED <<buf, head, size, last, fill, alist, probe, wlock>>

CapacityCall(t) ==
    /\ ~Crashed /\ pc[t] = "RLock" /\ wlock = 0
    /\ Finish(t, "Capacity", [ring |-> Ring, err |-> "nil", val |-> Capacity(Ring)])
    /\ UNCHANGED <<buf, head, size, last, fill, alist, probe, wlock>>

ConcNext ==
    \E t \in Threads :
       \/ AddReadSize(t) \/ AddReadLen(t) \/ AddCritical(t)
       \/ AddAllBegin(t) \/ AddAllStep(t)
       \/ RemoveBegin(t) \/ RemoveEnd(t)
       \/ SetCapacityCall(t) \/ PushCall(t)
       \/ RLock(t) \/ GetCall(t) \/ SizeCall(t) \/ CapacityCall(t)

ConcSpec == Init /\ [][ConcNext]_vars

\* Fair scheduling: a goroutine inside a call that can take its next step
\* takes it, and one that waits for b.lock gets it (sync.RWMutex hands the lock
\* to every waiter in the end, however often it is taken and released
\* meanwhile).  No goroutine has to start a call.
Fairness ==
    \A t \in Threads :
       /\ WF_vars(AddReadLen(t))
       /\ SF_vars(AddCritical(t))
       /\ WF_vars(AddAllStep(t))
       /\ WF_vars(RemoveEnd(t))
       /\ SF_vars(GetCall(t) \/ SizeCall(t) \/ CapacityCall(t))

FairConcSpec == ConcSpec /\ Fairness

\* ----------------------------------------------------------------- claims

\* C1: with several goroutines calling Add, AddAll, Remove, Push and
\* SetCapacity on one Ring, size <= capacity in every reachable state: two Add
\* calls on a ring with one free slot cannot both succeed.
C1_SizeWithinCapacity == size <= Len(buf)


\* What a caller can see of a ring: Size(), Capacity() and Get(i) for every
\* i in 0..Size()-1.
Observable(r) ==
    [size     |-> Size(r),
     capacity |-> Capacity(r),
     gets     |-> [i \in 0..(Size(r) - 1) |-> Get(r, i).val]]

\* The values stored in the ring's live window.
Stored(r) == {Get(r, i).val : i \in 0..(Size(r) - 1)}

\* C2: in sequential use, Add(v) on a ring with size < capacity returns no
\* error; afterwards Size() is the old size plus 1, Get(0) is v and Get(i) is
\* what Get(i-1) was, for every i in 1..old size (nothing is evicted); and a
\* fresh ring of capacity M that took M Adds has Size() = Capacity().
C2_AddAppends ==
    [][/\ (last'.op = "Add" /\ size < Len(buf)) =>
            /\ last'.err = "nil"
            /\ Size(Ring') = Size(Ring) + 1
            /\ Capacity(Ring') = Capacity(Ring)
            /\ Get(Ring', 0).err = "nil"
            /\ Get(Ring', 0).val = last'.arg
            /\ \A i \in 1..size : Get(Ring', i).val = Get(Ring, i - 1).val
       /\ (fill' = Capacity(Ring')) => Size(Ring') = Capacity(Ring')
      ]_vars

\* A successful Add was made on a ring that held two elements, the live
\* window wrapping past the end of the array, and filled it.
C2_Witness ==
    /\ last.op = "Add" /\ last.err = "nil"
    /\ size = 3 /\ head = 0 /\ Len(buf) = 3
    /\ Get(Ring, 1).val # Get(Ring, 2).val

\* A fresh ring of the largest capacity filled by Adds alone.
C2_FillWitness == fill = MaxCap /\ Len(buf) = MaxCap /\ size = MaxCap

RECURSIVE AddEach(_, _)
\* The ring after Add(v1), ..., Add(vn), one call after the other.
AddEach(r, values) ==
    IF Len(values) = 0 THEN r
    ELSE AddEach(Add(r, Head(values)).ring, Tail(values))

\* C3: for every ring state and every value list with size + n <= capacity,
\* AddAll(v1..vn) returns no error and ends in the same observable state
\* (Size(), Capacity(), every Get(i)) as Add(v1), ..., Add(vn) from that state.
C3_AddAllAsAdds ==
    [][(last'.op = "AddAll" /\ size + Len(last'.args) <= Len(buf)) =>
          /\ last'.err = "nil"
          /\ \A after \in {AddEach(Ring, last'.args)} :
                Observable(Ring') = Observable(after)
      ]_vars

\* An AddAll of two values succeeded on a ring that held one element in the
\* slot before the last: the free space wrapped past the end of the array and
\* the call took two copy spans.
C3_Witness ==
    /\ last.op = "AddAll" /\ last.err = "nil" /\ Len(last.args) = 2
    /\ Len(buf) = 3 /\ size = 3 /\ head = 0
    /\ last.args[1] # last.args[2]

\* C4: when size + len(values) > capacity, AddAll returns Full and changes
\* nothing: size, head, capacity and every Get(i) stay as they were.
C4_AddAllAllOrNothing ==
    [][(last'.op = "AddAll" /\ size + Len(last'.args) > Len(buf)) =>
          /\ last'.err = "Full"
          /\ Ring' = Ring
          /\ Observable(Ring') = Observable(Ring)
      ]_vars

\* AddAll of two values was refused on a ring with one free slot: the first
\* value alone would have fitted.
C4_Witness ==
    /\ last.op = "AddAll" /\ last.err = "Full" /\ Len(last.args) = 2
    /\ Len(buf) = 3 /\ size = 2

\* C5: on a ring holding at least one element, SetCapacity(c) with c other
\* than the current capacity leaves Size() and every Get(i), i in 0..size-1,
\* as they were.
C5_SetCapacityKeepsContent ==
    [][(last'.op = "SetCapacity" /\ size > 0 /\ last'.arg # Len(buf)) =>
          /\ last'.err = "nil"
          /\ Size(Ring') = Size(Ring)
          /\ \A i \in 0..(size - 1) : Get(Ring', i).val = Get(Ring, i).val
      ]_vars

\* SetCapacity changed the capacity of a ring of two different elements.
C5_Witness ==
    /\ last.op = "SetCapacity" /\ last.err = "nil" /\ last.arg = Len(buf)
    /\ size = 2 /\ Len(buf) # 2 /\ head = 1
    /\ Get(Ring, 0).val # Get(Ring, 1).val

\* C6: SetCapacity never fails: in every ring state, the empty ring and the
\* ring of capacity 0 included, and for every c, SetCapacity(c) completes
\* without a runtime fault, Capacity() = max(c, size) and Size() is unchanged.
C6_SetCapacityNeverFails ==
    [][(last'.op = "SetCapacity") =>
          /\ last'.err = "nil"
          /\ Capacity(Ring') = Max(last'.arg, size)
          /\ Size(Ring') = Size(Ring)
      ]_vars

\* C7: Remove(count) never fails and removes the min(max(count,0), size)
\* oldest elements: nothing changes for count <= 0; for 0 < count < size the
\* size drops by count and the newest size-count elements keep their offsets,
\* Get(-1) being the oldest survivor; for count >= size the ring is empty with
\* head at -1.  The capacity never changes.
C7_RemoveOldest ==
    [][(last'.op = "Remove") =>
          LET count == last'.arg
              k     == Min(Max(count, 0), size)
          IN  /\ last'.err = "nil"
              /\ Size(Ring') = Size(Ring) - k
              /\ Capacity(Ring') = Capacity(Ring)
              /\ \A i \in 0..(size - k - 1) : Get(Ring', i).val = Get(Ring, i).val
              /\ (count <= 0) => Ring' = Ring
              /\ (0 < count /\ count < size) =>
                     Get(Ring', -1).val = Get(Ring, size - count - 1).val
              /\ (count >= size) => (size' = 0 /\ head' = -1)
      ]_vars

\* Remove took some, not all, of the elements of a ring.
C7_Witness ==
    /\ last.op = "Remove" /\ last.arg = 1
    /\ size = 2 /\ Len(buf) = 3 /\ head = 0
    /\ Get(Ring, 0).val # Get(Ring, -1).val

\* Remove emptied a ring that held elements.
C7_EmptiedWitness ==
    /\ last.op = "Remove" /\ last.arg = 3
    /\ size = 0 /\ head = -1 /\ buf[1] # Nil

\* C8: Push(v) on a non-empty ring, full or not, keeps Size() and Capacity(),
\* makes Get(0) = v and Get(i) what Get(i-1) was for i in 1..size-1; the
\* element that was oldest (when no other stored value nor v equals it) is
\* returned by no offset afterwards.
C8_PushDiscardsOldest ==
    [][(last'.op = "Push" /\ size > 0) =>
          LET v      == last'.arg
              oldest == Get(Ring, -1).val
          IN  /\ last'.err = "nil"
              /\ Size(Ring') = Size(Ring)
              /\ Capacity(Ring') = Capacity(Ring)
              /\ Get(Ring', 0).val = v
              /\ \A i \in 1..(size - 1) : Get(Ring', i).val = Get(Ring, i - 1).val
              /\ (v # oldest /\ \A i \in 0..(size - 2) : Get(Ring, i).val # oldest) =>
                     \A i \in Offsets : Get(Ring', i).val # oldest
      ]_vars

\* Push was made on a full ring of three elements.
C8_Witness ==
    /\ last.op = "Push" /\ size = 3 /\ Len(buf) = 3
    /\ Get(Ring, 0).val = last.arg /\ Get(Ring, 1).val # last.arg

\* Push was made on a ring with free room.
C8_RoomWitness ==
    /\ last.op = "Push" /\ size = 2 /\ Len(buf) = 3
    /\ Get(Ring, 0).val = last.arg /\ Get(Ring, 1).val # last.arg

\* C9 as stated: Push(v) on a non-empty ring with size < capacity, v not
\* among the stored values, leaves the size as it was and v is returned by no
\* Get(i) afterwards.
C9_PushedValueLost ==
    [][(last'.op = "Push" /\ size > 0 /\ size < Len(buf)
            /\ last'.arg \notin Stored(Ring)) =>
          /\ Size(Ring') = Size(Ring)
          /\ \A i \in Offsets : Get(Ring', i).val # last'.arg
      ]_vars

\* C9 amended: Push(v) on a non-empty ring with size < capacity, v not among
\* the stored values, leaves the size as it was and v is returned by Get(i)
\* exactly for the offsets i that are multiples of size (Get(0) among them).
C9_PushedValueIsNewest ==
    [][(last'.op = "Push" /\ size > 0 /\ size < Len(buf)
            /\ last'.arg \notin Stored(Ring)) =>
          /\ Size(Ring') = Size(Ring)
          /\ \A i \in Offsets : (Get(Ring', i).val = last'.arg) <=> (i % size = 0)
      ]_vars

\* Push of a value the ring did not hold was made on a ring of two elements
\* and capacity three.
C9_Witness ==
    /\ last.op = "Push" /\ size = 2 /\ Len(buf) = 3
    /\ Get(Ring, 1).val # last.arg

\* The value the last successful Add, AddAll or Push put in last.
Newest ==
    IF last.op = "AddAll" THEN last.args[Len(last.args)] ELSE last.arg

\* C10: on a non-empty ring Get folds its offset modulo size: Get(i) reads
\* slot (head - (i mod size)) mod capacity, so Get(0) is the element added
\* last, Get(size-1) and Get(-1) are the same (the oldest), and
\* Get(i) = Get(i + k*size) for every i and k.
C10_GetFoldsModuloSize ==
    size > 0 =>
       /\ \A i \in Offsets :
             /\ Get(Ring, i).err = "nil"
             /\ Get(Ring, i).val = buf[((head - (i % size)) % Len(buf)) + 1]
             /\ \A k \in (-MaxOffset)..MaxOffset :
                   Get(Ring, i).val = Get(Ring, i + k * size).val
       /\ Get(Ring, -1).val = Get(Ring, size - 1).val
       /\ (/\ last.op \in {"Add", "AddAll", "Push"}
           /\ last.err = "nil"
           /\ last.op = "AddAll" => Len(last.args) > 0) =>
              Get(Ring, 0).val = Newest

\* A ring of two different elements and capacity three, its window wrapping
\* past the end of the array: folding modulo the capacity would read a slot
\* outside the window.
C10_Witness ==
    /\ size = 2 /\ Len(buf) = 3 /\ head = 0
    /\ Get(Ring, 0).val # Get(Ring, 1).val
    /\ Get(Ring, 2).val = Get(Ring, 0).val
    /\ buf[2] # Get(Ring, 1).val

\* The slots of the live window: (head - j) mod capacity for j in 0..size-1.
LiveSlots(r) == {(r.head - j) % Len(r.buf) : j \in 0..(r.size - 1)}

\* C11: Get(i) returns the Empty error, for every offset i, exactly when
\* Size() = 0 (a fresh ring, or one emptied by Remove), and a stored value with
\* no error when Size() > 0; Get never changes the ring.  (Get is called with
\* every offset of Offsets in every state a run that has not panicked reaches.)
C11_GetEmptyIffNoElement ==
    [][(last'.op = "Get") =>
          /\ Ring' = Ring
          /\ (last'.err = "Empty") <=> (size = 0)
          /\ size > 0 =>
                /\ last'.err = "nil"
                /\ \E k \in LiveSlots(Ring) : last'.val = buf[k + 1]
      ]_vars

\* Get was called on a ring that Remove had emptied: the array still holds
\* the removed value.
C11_Witness ==
    /\ last.op = "Get" /\ last.err = "Empty"
    /\ size = 0 /\ Len(buf) = 3 /\ buf[1] # Nil

\* C12: in sequential use Add(v) on a ring with size = capacity returns Full
\* and leaves size, head, capacity and every Get(i) as they were.
C12_AddOnFullRing ==
    [][(last'.op = "Add" /\ size = Len(buf)) =>
          /\ last'.err = "Full"
          /\ Ring' = Ring
          /\ Observable(Ring') = Observable(Ring)
      ]_vars

\* Add was refused on a full ring of three elements, none of them the value
\* offered.
C12_Witness ==
    /\ last.op = "Add" /\ last.err = "Full"
    /\ size = 3 /\ Len(buf) = 3
    /\ last.arg \notin Stored(Ring)

\* C15: SetCapacity(Capacity()) is a no-op in every state, empty rings
\* included: size, head, the storage array and every Get(i) are unchanged.
C15_SetSameCapacity ==
    [][(last'.op = "SetCapacity" /\ last'.arg = Capacity(Ring)) =>
          /\ last'.err = "nil"
          /\ Ring' = Ring
          /\ Observable(Ring') = Observable(Ring)
      ]_vars

\* SetCapacity returned without a fault on an empty ring of capacity 3 (any
\* other capacity faults there), and on a ring whose window wraps (any other
\* capacity leaves the head at size - 1).
C15_Witness ==
    /\ last.op = "SetCapacity" /\ last.err = "nil" /\ last.arg = 3
    /\ Len(buf) = 3
    /\ \/ size = 0 /\ buf[1] # Nil
       \/ size = 2 /\ head = 0

\* C16: Push(v) on a ring with size 0, whatever its capacity, changes
\* nothing: size stays 0, head stays -1, v is not stored and Get still returns
\* Empty; Add(v) in the same state, given room, stores v.
C16_PushOnEmptyRing ==
    [][(last'.op = "Push" /\ size = 0) =>
          /\ last'.err = "nil"
          /\ Ring' = Ring
          /\ size' = 0 /\ head' = -1
          /\ \A i \in Offsets : Get(Ring', i).err = "Empty"
          /\ Len(buf) > 0 =>
                /\ Add(Ring, last'.arg).err = "nil"
                /\ Size(Add(Ring, last'.arg).ring) = 1
                /\ Get(Add(Ring, last'.arg).ring, 0).val = last'.arg
      ]_vars

\* Push was called on an empty ring with free room whose array holds no copy
\* of the value.
C16_Witness ==
    /\ last.op = "Push" /\ size = 0 /\ head = -1 /\ Len(buf) = 3
    /\ \A k \in 1..3 : buf[k] # last.arg

\* C17: on a ring created with capacity 0, Add(v) and AddAll of a non-empty
\* list return Full, AddAll of the empty list returns no error, Get(i) returns
\* Empty, Push(v) and Remove(n) change nothing, Size() = Capacity() = 0, and
\* none of these calls faults.
C17_ZeroCapacity ==
    [][(Len(buf) = 0 /\ last'.op \in {"Add", "AddAll", "Get", "Push", "Remove"}) =>
          /\ Ring' = Ring
          /\ Size(Ring') = 0 /\ Capacity(Ring') = 0
          /\ last'.err # "panic"
          /\ last'.op = "Add" => last'.err = "Full"
          /\ last'.op = "AddAll" =>
                last'.err = (IF Len(last'.args) = 0 THEN "nil" ELSE "Full")
          /\ last'.op = "Get" => last'.err = "Empty"
          /\ last'.op \in {"Push", "Remove"} => last'.err = "nil"
      ]_vars

\* AddAll of the empty list was called on a ring of capacity 0.
C17_Witness ==
    /\ Len(buf) = 0 /\ size = 0
    /\ last.op = "AddAll" /\ last.args = <<>> /\ last.err = "nil"

\* Add was called on a ring of capacity 0.
C17_AddWitness == Len(buf) = 0 /\ last.op = "Add" /\ last.err = "Full"

\* C18: after any sequence of New, Add, AddAll, Remove, Push and SetCapacity
\* calls made one after the other, 0 <= size <= capacity, size = 0 exactly
\* when head = -1, and size > 0 implies 0 <= head < capacity.
C18_RingInvariant ==
    /\ 0 <= size /\ size <= Len(buf)
    /\ (size = 0) <=> (head = -1)
    /\ size > 0 => (0 <= head /\ head < Len(buf))

\* A full ring of capacity 3 after a Push that moved its head to the middle
\* of the array.
C18_Witness ==
    /\ last.op = "Push" /\ size = 3 /\ Len(buf) = 3 /\ head = 1

\* A ring emptied by Remove from a head in the middle of the array.
C18_EmptiedWitness ==
    /\ last.op = "Remove" /\ last.arg = 2 /\ size = 0 /\ head = -1
    /\ Len(buf) = 3 /\ buf[2] # Nil

RECURSIVE TurnsProgress(_, _)
\* Every turn of AddAll's loop on ring r and list values copies at least one
\* value, and no turn faults.
TurnsProgress(r, values) ==
    \/ Len(values) = 0
    \/ \A turn \in {AddAllTurn(r, values)} :
          /\ ~turn.fault
          /\ turn.n >= 1
          /\ TurnsProgress(turn.ring, turn.values)

\* C20: in every reachable state and for every list that passes the test
\* size + len(values) <= capacity, each turn of AddAll's loop copies at least
\* one value: AddAll never panics.
C20_AddAllNeverPanics ==
    /\ \A vs \in ValueLists :
          ~AddAllFull(Ring, vs) => (TurnsProgress(Ring, vs) /\ AddAll(Ring, vs).err = "nil")
    /\ last.op = "AddAll" => last.err # "panic"

\* AddAll added two values in two turns: the first went to the last slot of
\* the array, the second to slot 0.
C20_Witness ==
    /\ last.op = "AddAll" /\ last.err = "nil" /\ Len(last.args) = 2
    /\ Len(buf) = 3 /\ head = 0 /\ size = 3
    /\ buf[3] = last.args[1] /\ buf[1] = last.args[2] /\ buf[3] # buf[1]

\* C13: for capacity >= 1, 1 <= size <= capacity, 0 <= head < capacity and
\* every i, Index(i, head, size, capacity) = (head - (i mod size)) mod
\* capacity with the non-negative modulo, a slot in 0..capacity-1; and Index
\* returns -1 whenever size = 0.
C13_IndexIsTheMap ==
    probe.done =>
       /\ probe.size = 0 => probe.pos = -1
       /\ (/\ probe.capacity >= 1
           /\ 1 <= probe.size /\ probe.size <= probe.capacity
           /\ 0 <= probe.head /\ probe.head < probe.capacity) =>
              /\ probe.pos = (probe.head - (probe.i % probe.size)) % probe.capacity
              /\ 0 <= probe.pos /\ probe.pos < probe.capacity

\* Index(-51, 0, 5, 5) returned 1: a negative offset ten times the size and
\* more, a window that wraps.
C13_Witness ==
    /\ probe.done
    /\ probe.i = -51 /\ probe.head = 0 /\ probe.size = 5 /\ probe.capacity = 5
    /\ probe.pos = 1

\* C19: the ring refines a bounded list: beside a list on which a successful
\* Add or AddAll appends, Remove(n) drops the n oldest, Push on a list that is
\* not empty appends and drops the oldest and SetCapacity does nothing, Size()
\* is the length of the list and Get(i) its i-th newest element, for every i
\* in 0..Size()-1, after any sequence of calls made one after the other.
C19_RefinesList ==
    /\ Size(Ring) = Len(alist)
    /\ \A i \in 0..(Size(Ring) - 1) :
          /\ Get(Ring, i).err = "nil"
          /\ Get(Ring, i).val = alist[Len(alist) - i]

\* A list of two different values whose ring wraps past the end of its
\* array, after a Remove.
C19_Witness ==
    /\ last.op = "Remove" /\ last.arg = 1
    /\ alist = <<1, 2>> /\ Len(buf) = 3 /\ head = 0 /\ size = 2

\* The list after SetCapacity moved its ring to a smaller array.
C19_ResizedWitness ==
    /\ last.op = "SetCapacity" /\ last.err = "nil"
    /\ alist = <<2, 1>> /\ Len(buf) = 2 /\ buf[1] = 2

\* C14: a reader running beside AddAll never sees it half applied.  While a
\* goroutine is inside the loop of an AddAll of n values, a Size() of another
\* goroutine that returns gives the size before the call or that size plus n,
\* and a Get(0) that returns gives the newest element before the call or the
\* last value of the list; and when the AddAll leaves its loop and lets the
\* waiting readers in, Size() is the size before the call plus n and Get(0) is
\* the last value of the list.
C14_ReaderSeesWholeAddAll ==
    [][\A t \in Threads : \A u \in Threads \ {t} :
          pc[t] = "AddAllLoop" =>
             /\ (pc[u] = "RLock" /\ pc'[u] = "idle" /\ loc'[u].op = "Size") =>
                   loc'[u].out \in {loc[t].seen, loc[t].seen + Len(loc[t].all)}
             /\ (pc[u] = "RLock" /\ pc'[u] = "idle" /\ loc'[u].op = "Get" /\ loc'[u].val = 0) =>
                   loc'[u].out \in {loc[t].val, loc[t].all[Len(loc[t].all)]}
             /\ pc'[t] = "idle" =>
                   /\ Size(Ring') = loc[t].seen + Len(loc[t].all)
                   /\ Get(Ring', 0).val = loc[t].all[Len(loc[t].all)]]_vars

\* Goroutine 1 has copied the first of the two spans of an AddAll of two
\* different values, the first of them new to the ring, while goroutine 2
\* waits in a reader.
C14_Witness ==
    /\ pc[1] = "AddAllLoop" /\ pc[2] = "RLock"
    /\ Len(loc[1].all) = 2 /\ Len(loc[1].values) = 1
    /\ loc[1].seen >= 1 /\ size = loc[1].seen + 1
    /\ loc[1].all[1] # loc[1].all[2] /\ loc[1].all[1] # loc[1].val
    /\ Get(Ring, 0).val = loc[1].all[1]

\* The reader that waited has returned from Size() after the AddAll.
C14_AfterWitness ==
    /\ pc[1] = "idle" /\ loc[1].op = "AddAll" /\ loc[1].err = "nil"
    /\ pc[2] = "idle" /\ loc[2].op = "Size" /\ loc[2].out = 3 /\ size = 3

RECURSIVE Turns(_, _)
\* The number of turns AddAll's loop takes on ring r and list values; a turn
\* that panics is the last.
Turns(r, values) ==
    IF Len(values) = 0 THEN 0
    ELSE LET turn == AddAllTurn(r, values)
         IN  IF turn.fault THEN 1 ELSE 1 + Turns(turn.ring, turn.values)

\* The lists of values that pass AddAll's test on ring r.
Fitting(r) == SeqsUpTo(Val, Len(r.buf) - r.size)

\* C21: in every reachable state and for every list that fits, AddAll's loop
\* ends after at most two turns: the first copies to the slots from head+1
\* towards the end of the array as many values as there are slots or values,
\* and, if values are left, the second starts at slot 0 and copies them all.
C21_AddAllTwoSpans ==
    \A vs \in Fitting(Ring) : \A first \in {AddAllTurn(Ring, vs)} :
       Len(vs) > 0 =>
          /\ ~AddAllFull(Ring, vs)
          /\ ~first.fault
          /\ first.n = Min(Len(buf) - RingNext(1, head, Len(buf)), Len(vs))
          /\ \A k \in 1..first.n : first.ring.buf[RingNext(1, head, Len(buf)) + k] = vs[k]
          /\ Len(first.values) > 0 =>
                \A second \in {AddAllTurn(first.ring, first.values)} :
                   /\ ~second.fault
                   /\ RingNext(1, first.ring.head, Len(buf)) = 0
                   /\ \A k \in 1..Len(first.values) : second.ring.buf[k] = first.values[k]
                   /\ Len(second.values) = 0
          /\ Turns(Ring, vs) <= 2

\* AddAll(1, 2) was called on a ring of capacity 3 whose one element sat in
\* the middle slot: 1 went to the last slot, 2 to slot 0.
C21_Witness ==
    /\ last.op = "AddAll" /\ last.err = "nil" /\ last.args = <<1, 2>>
    /\ Len(alist) = 3 /\ SubSeq(alist, 2, 3) = <<1, 2>>
    /\ Len(buf) = 3 /\ head = 0 /\ buf[3] = 1 /\ buf[1] = 2

\* A ring from which AddAll needs two turns for a list that fits: its next
\* slot is the last of the array and two slots are free.
C21_BeforeWitness ==
    /\ Len(buf) = 3 /\ head = 1 /\ size = 1
    /\ Turns(Ring, <<1, 2>>) = 2

\* The goroutine that holds b.lock for writing is inside the critical section of
\* a writer: no goroutine that is idle, has panicked, or waits for the lock
\* holds it.
LockHeldInside ==
    \A t \in Threads : (wlock = t) <=> (pc[t] \in {"AddAllLoop", "RemoveReset"})

\* A step that gives b.lock to a goroutine finds the lock free.
LockTakenFree ==
    \A t \in Threads : (wlock' = t /\ wlock # t) => wlock = 0

\* C22: no interleaving of calls deadlocks: no call takes the lock while it
\* holds it, every call has released the lock when it is over, however it
\* ends, and under fair scheduling every call that has started returns.
C22_EveryCallReturns ==
    /\ []LockHeldInside
    /\ [][LockTakenFree]_vars
    /\ \A t \in Threads : (pc[t] # "idle") ~> (pc[t] = "idle")

\* The same without the calls a panic ends: under fair scheduling every call
\* that has started returns, or a panic ends the program with the lock free.
C22_NoCallWaitsForever ==
    /\ []LockHeldInside
    /\ [][LockTakenFree]_vars
    /\ \A t \in Threads : (pc[t] # "idle") ~> (pc[t] = "idle" \/ (Crashed /\ wlock = 0))

=============================================================================
